---- MODULE Spec2Model ----
(***************************************************************************)
(* Model of nestjs-aws-toolkit: the generic AwsModuleFactory               *)
(* (common/module.factory), its token helpers (utils/token) and the        *)
(* provider bundles (DynamicModule) it returns, together with the way the  *)
(* hosting container resolves the providers of those bundles.              *)
(*                                                                         *)
(* A JavaScript value is a record [def, cfg, id]: def = FALSE is           *)
(* undefined; cfg is the object's own enumerable properties (a function    *)
(* from property names to values); id is the identity given to an object   *)
(* made by the client instantiator (NoId for plain option objects).        *)
(***************************************************************************)
EXTENDS Integers, Sequences, FiniteSets, TLC

\* The field names of the records of this module. TLC orders the fields of a
\* record by the first occurrence of their names; every record below lists its
\* fields in this order.
FieldOrder ==
  [Body |-> 0, Entries |-> 0, Failed |-> 0, Id |-> 0, MD5OfMessageBody |-> 0,
   MaxNumberOfMessages |-> 0, MessageBody |-> 0, MessageDeduplicationId |-> 0,
   MessageGroupId |-> 0, Messages |-> 0, QueueUrl |-> 0, ReceiptHandle |-> 0,
   Successful |-> 0, VisibilityTimeout |-> 0, WaitTimeSeconds |-> 0,
   accessKeyId |-> 0, apiVersion |-> 0, body |-> 0, bodyList |-> 0, built |-> 0,
   calls |-> 0, cause |-> 0, cfg |-> 0, class |-> 0, client |-> 0, commands |-> 0,
   credentials |-> 0, creds |-> 0, def |-> 0, defaultMessageGroupId |-> 0,
   defaultQueueUrl |-> 0, domain |-> 0, err |-> 0, feature |-> 0, global |-> 0,
   id |-> 0, inject |-> 0, k |-> 0, kind |-> 0, m |-> 0, messageGroupId |-> 0,
   messages |-> 0, name |-> 0, ok |-> 0, op |-> 0, option |-> 0, outcome |-> 0,
   provide |-> 0, providers |-> 0, queueName |-> 0, queueUrl |-> 0, raised |-> 0,
   receiptHandle |-> 0, region |-> 0, result |-> 0, scope |-> 0,
   secretAccessKey |-> 0, sent |-> 0, settled |-> 0, sqsQueueUrl |-> 0, st |-> 0,
   string |-> 0, t |-> 0, text |-> 0, token |-> 0, url |-> 0, useValue |-> 0,
   val |-> 0, waited |-> 0]

VARIABLES
  phase,     \* "register": module definitions are being evaluated; "run": the container resolves providers
  roots,     \* the global bundles returned by forRoot / forRootAsync, in import order
  rinst,     \* rinst[r]: the container's instance wrapper of the root token of roots[r]
  modules,   \* the feature bundles returned by registerFeature / registerFeatureAsync, in import order
  inst,      \* inst[m][t]: the container's instance wrapper of token t in modules[m]
  cons,      \* cons[c]: a consumer that injects a token from a feature bundle
  made,      \* the tokens the token functions have returned so far, with their arguments
  queue      \* an AwsSqsQueue object: its fields and the method call in progress on it

vars == <<phase, roots, rinst, modules, inst, cons, made, queue>>

(***************************** bounds *************************************)
MaxRoots == 1        \* forRoot / forRootAsync calls
MaxFeatures == 2     \* feature options registered, over all registerFeature(Async) calls
MaxConsumers == 2    \* consumers injecting a client
MaxTokens == 3       \* calls of the token functions

(***************************** values *************************************)
tokenRoot == "AwsS3ModuleRoot"

Names == {"a", "b"}

EmptyMap == [k \in {} |-> 0]

\* Root option objects a caller may register (type Root).
RootCfgs == { [creds |-> 1, region |-> 1], [region |-> 2] }

\* Feature override objects (type Partial<Root>) an async feature factory may
\* return: one overrides a root field and adds one, the other only adds one.
FeatCfgs == { [region |-> 3, url |-> 1], [url |-> 2] }

\* Causes an async user factory may reject with.
Errs == {"E1"}

\* Causes the client instantiator may throw with.
InstErrs == {"E2"}

NoId == [k |-> 0, m |-> 0, t |-> ""]

Undefined == [cfg |-> EmptyMap, def |-> FALSE, id |-> NoId]

Obj(c) == [cfg |-> c, def |-> TRUE, id |-> NoId]

NoErr == [cause |-> "", class |-> "", domain |-> "", feature |-> ""]

\* The error object a user factory throws / rejects with.
UserError(e) == [cause |-> e, class |-> "Error", domain |-> "", feature |-> ""]

\* Object spread {...v}: the own properties of v; spreading undefined adds nothing.
Spread(v) == IF v.def THEN v.cfg ELSE EmptyMap

\* {...a, ...b} on property maps: later spreads overwrite earlier ones.
SpreadMerge(a, b) ==
  [k \in (DOMAIN a) \cup (DOMAIN b) |-> IF k \in DOMAIN b THEN b[k] ELSE a[k]]

(***************************** tokens *************************************)
RECURSIVE join(_, _)
join(tokens, sep) ==
  IF Len(tokens) = 1 THEN tokens[1]
  ELSE tokens[1] \o sep \o join(Tail(tokens), sep)

\* Variant: the tokens are joined with another separator.
mergeTokensDash(tokens) == join(tokens, "-")

\* mergeTokens(...tokens): throws on an empty list, else tokens.join('_').
mergeTokens(tokens) == join(tokens, "_")

getRootToken(rootToken) == rootToken

getFeatureToken(rootToken, featureToken) ==
  mergeTokens(<<rootToken, "Feature">> \o featureToken)

\* Variant: the options token leaves out the word that tells it from the
\* feature token.
getFeatureOptionsTokenPlain(rootToken, featureToken) ==
  mergeTokens(<<rootToken, "Feature">> \o featureToken)

getFeatureOptionsToken(rootToken, featureToken) ==
  mergeTokens(<<rootToken, "Feature", "Options">> \o featureToken)

\* The class made by createOptionsProvider(optionsToken): mixin() gives every such
\* class a name of its own, so the class is a token local to the bundle holding it.
HolderToken == "CommonOptionsHolder"

(***************************** options ************************************)
\* The sync feature options a caller may register: the override object with its
\* identifying field. Two of them carry the same name.
SyncOptions ==
  { [name |-> "a", region |-> 3, url |-> 1], [name |-> "a", url |-> 2],
    [name |-> "b", url |-> 2] }

\* An async descriptor {<identifying field>, useFactory, inject}: the factory is
\* the environment's; what it returns is chosen when it settles.
AsyncOptions == { [name |-> n] : n \in Names }

featureIdentifierGetter(option) == option["name"]

\* The identifying field of a feature option or descriptor: queueName for the
\* queues of AwsSqsModule, else what featureIdentifierGetter reads.
Identifier(option) ==
  IF "queueName" \in DOMAIN option THEN option.queueName
  ELSE featureIdentifierGetter(option)

Lists(S) == UNION { [1..n -> S] : n \in 1..MaxFeatures }

(***************************** providers **********************************)
\* A provider object {provide, useValue | useFactory | class, inject}; none of
\* the provider objects of the source sets a scope, so each is a singleton.
Provider(token, body, option, inject) ==
  [body |-> body, inject |-> inject, option |-> option, provide |-> token,
   scope |-> "DEFAULT"]

\* createOptionsProvider(optionsToken): the holder class, which injects the
\* options token into its constructor.
createOptionsProvider(optionsToken) ==
  Provider(HolderToken, "holder", EmptyMap, <<optionsToken>>)

commonConfigHolder == createOptionsProvider(getRootToken(tokenRoot))

createAsyncRootOptionProvider(option) ==
  Provider(getRootToken(tokenRoot), "asyncRoot", option, <<>>)

optionsProviderList(optionsList) ==
  [i \in 1..Len(optionsList) |->
     Provider(getFeatureOptionsToken(tokenRoot, <<featureIdentifierGetter(optionsList[i])>>),
              "asyncOptions", optionsList[i], <<>>)]

\* Variant: the client providers are registered with scope TRANSIENT.
queueProviderListTransient(optionsList) ==
  [i \in 1..Len(optionsList) |->
     [Provider(getFeatureToken(tokenRoot, <<featureIdentifierGetter(optionsList[i])>>),
               "asyncClient", optionsList[i],
               <<HolderToken,
                 getFeatureOptionsToken(tokenRoot, <<featureIdentifierGetter(optionsList[i])>>)>>)
      EXCEPT !.scope = "TRANSIENT"]]

\* Variant: the client providers do not inject the feature options token.
queueProviderListNoOptionsDep(optionsList) ==
  [i \in 1..Len(optionsList) |->
     Provider(getFeatureToken(tokenRoot, <<featureIdentifierGetter(optionsList[i])>>),
              "asyncClient", optionsList[i], <<HolderToken>>)]

queueProviderList(optionsList) ==
  [i \in 1..Len(optionsList) |->
     Provider(getFeatureToken(tokenRoot, <<featureIdentifierGetter(optionsList[i])>>),
              "asyncClient", optionsList[i],
              <<HolderToken,
                getFeatureOptionsToken(tokenRoot, <<featureIdentifierGetter(optionsList[i])>>)>>)]

createAsyncFeatureOptionProviders(optionsList) ==
  optionsProviderList(optionsList) \o <<commonConfigHolder>> \o queueProviderList(optionsList)

clientProviders(optionsList) ==
  [i \in 1..Len(optionsList) |->
     Provider(getFeatureOptionsToken(tokenRoot, <<featureIdentifierGetter(optionsList[i])>>),
              "syncClient", optionsList[i], <<HolderToken>>)]

DynamicModule(kind, global, providers) ==
  [global |-> global, kind |-> kind, providers |-> providers]

forRootModule(options) ==
  DynamicModule("root", TRUE,
                <<Provider(getRootToken(tokenRoot), "value", options, <<>>)>>)

\* Variant: the async root bundle is not global.
forRootAsyncModuleLocal(options) ==
  DynamicModule("root", FALSE, <<createAsyncRootOptionProvider(options)>>)

forRootAsyncModule(options) ==
  DynamicModule("root", TRUE, <<createAsyncRootOptionProvider(options)>>)

registerFeatureAsyncModule(asyncOptions) ==
  DynamicModule("feature", FALSE, createAsyncFeatureOptionProviders(asyncOptions))

registerFeatureModule(optionsList) ==
  DynamicModule("feature", FALSE, <<commonConfigHolder>> \o clientProviders(optionsList))

(***************************** container *********************************)
Tokens(mod) == { mod.providers[i].provide : i \in 1..Len(mod.providers) } \ {HolderToken}

\* Variant: the first provider of a token is kept.
ProviderOfFirst(mod, t) ==
  LET idx == { i \in 1..Len(mod.providers) : mod.providers[i].provide = t }
      first == CHOOSE i \in idx : \A j \in idx : i <= j
  IN mod.providers[first]

\* A bundle's providers are kept by token: a later provider of the same token
\* replaces an earlier one.
ProviderOf(mod, t) ==
  LET idx == { i \in 1..Len(mod.providers) : mod.providers[i].provide = t }
      last == CHOOSE i \in idx : \A j \in idx : j <= i
  IN mod.providers[last]

\* An instance wrapper: st is unresolved, resolving, resolved or failed; val is
\* the instance and err the error it failed with; calls counts the calls of the
\* user factory (option providers) or of the client instantiator (client
\* providers); raised is the error the user factory itself rejected with.
Wrapper(st, val, err, calls) ==
  [calls |-> calls, err |-> err, raised |-> NoErr, st |-> st, val |-> val]

\* Variant: the user factory of an async option provider is called when the
\* provider is built.
InitialWrapperEager(p) ==
  IF p.body = "value" THEN Wrapper("resolved", Obj(p.option), NoErr, 0)
  ELSE IF p.body \in {"asyncRoot", "asyncOptions"}
       THEN Wrapper("resolving", Undefined, NoErr, 1)
       ELSE Wrapper("unresolved", Undefined, NoErr, 0)

\* The wrapper a provider starts with: a useValue provider is its value at once.
InitialWrapper(p) ==
  IF p.body = "value" THEN Wrapper("resolved", Obj(p.option), NoErr, 0)
  ELSE Wrapper("unresolved", Undefined, NoErr, 0)

InitialInst(mod) == [t \in Tokens(mod) |-> InitialWrapper(ProviderOf(mod, t))]

\* Variant: a failure is not kept; only a resolved entry counts as settled.
SettledOnlyResolved(w) == w.st = "resolved"

Settled(w) == w.st \in {"resolved", "failed"}

\* Variant: the global bundle imported last provides the root token.
RootRefLast ==
  LET g == { r \in 1..Len(roots) : roots[r].global }
  IN IF g = {} THEN 0 ELSE CHOOSE r \in g : \A q \in g : q <= r

\* The global bundle that provides the root token to every other bundle: the
\* first global one imported; 0 when there is none.
RootRef ==
  LET g == { r \in 1..Len(roots) : roots[r].global }
  IN IF g = {} THEN 0 ELSE CHOOSE r \in g : \A q \in g : r <= q

MissingWrapper ==
  Wrapper("failed", Undefined,
          [cause |-> "", class |-> "UnknownDependenciesException", domain |-> "",
           feature |-> ""], 0)

\* Variant: the root token is injected without @Optional().
CommonOptionsHolderRequired ==
  IF RootRef = 0 THEN MissingWrapper ELSE rinst[RootRef]

\* constructor(@Optional() @Inject(optionsToken) public options: T): the holder
\* is built once the root provider, if there is one, has settled; without one
\* its options are undefined.
CommonOptionsHolder ==
  IF RootRef = 0 THEN Wrapper("resolved", Undefined, NoErr, 0)
  ELSE rinst[RootRef]

\* get(): return this.options
get(holder) == holder.val

\* The wrapper that token d, injected into a provider of modules[m], resolves to.
Dep(m, d) ==
  IF d = HolderToken THEN CommonOptionsHolder
  ELSE IF d \in Tokens(modules[m]) THEN inst[m][d]
  ELSE IF d = getRootToken(tokenRoot) /\ RootRef # 0 THEN rinst[RootRef]
  ELSE MissingWrapper

(***************************** factory bodies ****************************)
Resolve(v) == [err |-> NoErr, ok |-> TRUE, val |-> v]

Reject(e) == [err |-> e, ok |-> FALSE, val |-> Undefined]

\* async (...args) => { const value = await option.useFactory(...args); return value; }
rootUseFactory(outcome) == outcome

\* Variant: a rejection of the user factory is caught and replaced by {}.
featureOptionsUseFactorySwallow(outcome, name) ==
  IF outcome.ok THEN outcome ELSE Resolve(Obj(EmptyMap))

\* Variant: a rejection of the user factory is wrapped in an error of its own.
featureOptionsUseFactoryWrap(outcome, name) ==
  IF outcome.ok THEN outcome
  ELSE Reject([cause |-> outcome.err.cause, class |-> "ConfigurationResolutionError",
               domain |-> tokenRoot, feature |-> name])

featureOptionsUseFactory(outcome, name) == outcome

\* What a user factory of type T may settle with.
Outcomes(S) == { Resolve(Obj(c)) : c \in S } \cup { Reject(UserError(e)) : e \in Errs }

\* clientInstantiator(options): the client made from the merged config; every
\* call makes a new object.
clientInstantiator(config, id) == [cfg |-> config, def |-> TRUE, id |-> id]

\* What a call of the client instantiator may do: return (NoErr) or throw.
Thrown == {NoErr} \cup { UserError(e) : e \in InstErrs }

\* Variant: an error of the instantiator is caught and an empty handle returned.
clientUseFactoryCatch(outcome) ==
  IF outcome.ok THEN outcome ELSE Resolve(Obj(EmptyMap))

\* return this.clientInstantiator({ ...commonConfig, ...option }): the client
\* useFactory settles with what the instantiator returned or threw.
clientUseFactory(outcome) == outcome

\* Variant: the overrides are assigned into the root object (Object.assign).
commonConfigAfterSpreadAssign(configHolder, overrides) ==
  IF get(configHolder).def
  THEN [get(configHolder) EXCEPT !.cfg = SpreadMerge(get(configHolder).cfg, overrides)]
  ELSE get(configHolder)

\* The object the holder holds, after { ...commonConfig, ...overrides } was
\* evaluated: a spread reads its operands and writes to none of them.
commonConfigAfterSpread(configHolder, overrides) == get(configHolder)

\* registerFeature: { ...commonConfig, ...option }
syncClientConfig(configHolder, option) ==
  SpreadMerge(Spread(get(configHolder)), option)

\* Variant: the async client factory spreads the root over the feature options.
asyncClientConfigRootLast(configHolder, featureOptions) ==
  SpreadMerge(Spread(featureOptions), Spread(get(configHolder)))

\* registerFeatureAsync: { ...commonConfig, ...featureOptions }
asyncClientConfig(configHolder, featureOptions) ==
  SpreadMerge(Spread(get(configHolder)), Spread(featureOptions))

(***************************** AwsSqsQueue: values **********************)
MAX_BATCH_SIZE == 10

\* handle.slice(0, 60) in the Id of a delete entry.
DELETE_ID_HANDLE_LENGTH == 60

MaxBodies == 21      \* messages in the bodyList of a sendMessageBatch call

\* An optional string (string | undefined).
Str(s) == [def |-> TRUE, val |-> s]

NoStr == [def |-> FALSE, val |-> ""]

StrProp(options, k) == IF k \in DOMAIN options THEN Str(options[k]) ELSE NoStr

\* The merged configs a queue object may be constructed with: with a default
\* queue url and group, without either, and with an empty default queue url.
QueueCfgs ==
  { [credentials |-> [accessKeyId |-> 1, secretAccessKey |-> 1], messageGroupId |-> "g0",
     region |-> 1, sqsQueueUrl |-> "q0"],
    [region |-> 1],
    [sqsQueueUrl |-> ""] }

\* The queueUrl and messageGroupId arguments a caller may pass.
QueueUrlArgs == {NoStr, Str("q1")}

GroupIdArgs == {NoStr, Str("g1")}

\* Date.now()
Clock == {1, 2}

\* A message body: a string, or a value that is not a string, given by its
\* JSON text.
StringBody(s) == [string |-> TRUE, text |-> s]

JsonBody(j) == [string |-> FALSE, text |-> j]

\* typeof body === "string" ? body : JSON.stringify(body)
messageBody(body) == body.text

\* The bodyList of n messages: the numbers 1..n, or the strings "1".."n".
BodyList(n, strings) ==
  [i \in 1..n |-> IF strings THEN StringBody(ToString(i)) ELSE JsonBody(ToString(i))]

\* The bodyLists a caller may pass: every length up to the bound, and one list
\* of strings.
BodyLists == { BodyList(n, FALSE) : n \in 0..MaxBodies } \cup { BodyList(2, TRUE) }

\* A value a method of the queue completes with: null, the result of one send
\* ("result"), the reduced batch result ("batch") or the received messages with
\* the queue url their handlers use ("messages").
Value(kind, Failed, Successful, messages, QueueUrl) ==
  [Failed |-> Failed, QueueUrl |-> QueueUrl, Successful |-> Successful, kind |-> kind,
   messages |-> messages]

null == Value("null", <<>>, <<>>, <<>>, "")

NoValue == Value("none", <<>>, <<>>, <<>>, "")

\* The promise a method call returned: pending, fulfilled with val or rejected
\* with err; "none" before any call.
Outcome(kind, val, err) == [err |-> err, kind |-> kind, val |-> val]

Fulfilled(v) == Outcome("fulfilled", v, "")

Rejected(e) == Outcome("rejected", NoValue, e)

Pending == Outcome("pending", NoValue, "")

NoUrlError == "Default queue url is not provided. You must provide at least one queue url"

\* The error a failed send of the SDK carries.
SdkError == "SdkError"

Return(v) == [err |-> "", ok |-> TRUE, val |-> v]

Throw(e) == [err |-> e, ok |-> FALSE, val |-> ""]

\* The queue object before its constructor ran.
NoQueue ==
  [bodyList |-> <<>>, built |-> FALSE, client |-> EmptyMap, commands |-> <<>>,
   defaultMessageGroupId |-> NoStr, defaultQueueUrl |-> NoStr, op |-> "",
   outcome |-> Outcome("none", NoValue, ""), queueUrl |-> NoStr, result |-> <<>>,
   sent |-> <<>>, settled |-> 0]

\* !this.defaultQueueUrl
Falsy(s) == ~s.def \/ s.val = ""

\* _getDefaultQueueUrl()
getDefaultQueueUrl(q) ==
  IF Falsy(q.defaultQueueUrl) THEN Throw(NoUrlError) ELSE Return(q.defaultQueueUrl.val)

\* Variant: the default queue url is asked for before the argument is looked at.
queueUrlOrDefaultEager(q, queueUrl) ==
  IF ~getDefaultQueueUrl(q).ok THEN getDefaultQueueUrl(q)
  ELSE IF queueUrl.def THEN Return(queueUrl.val) ELSE getDefaultQueueUrl(q)

\* queueUrl = this._getDefaultQueueUrl() as a parameter default, and
\* queueUrl ?? this._getDefaultQueueUrl(): the default is asked for only when
\* no queueUrl was passed.
queueUrlOrDefault(q, queueUrl) ==
  IF queueUrl.def THEN Return(queueUrl.val) ELSE getDefaultQueueUrl(q)

\* messageGroupId ?? this.defaultMessageGroupId
groupIdOrDefault(q, messageGroupId) ==
  IF messageGroupId.def THEN messageGroupId ELSE q.defaultMessageGroupId

\* bodyList.slice(i, j), with 0-based i and exclusive j.
slice(list, i, j) ==
  SubSeq(list, i + 1, IF j < Len(list) THEN j ELSE Len(list))

\* One entry of a batch request.
BatchEntry(body, dateNow, groupId) ==
  [Id |-> "id_" \o dateNow, MessageBody |-> messageBody(body),
   MessageDeduplicationId |-> "deduplication_id_" \o dateNow, MessageGroupId |-> groupId]

EntriesOf(bodies, dateNow, groupId) ==
  [j \in 1..Len(bodies) |-> BatchEntry(bodies[j], dateNow, groupId)]

RECURSIVE batchRequestEntryListOverlap(_, _, _, _)
RECURSIVE batchRequestEntryList(_, _, _, _)
\* Variant: the slices overlap by one message.
batchRequestEntryListOverlap(bodyList, i, dateNow, groupId) ==
  IF i >= Len(bodyList) THEN <<>>
  ELSE <<EntriesOf(slice(bodyList, i, i + MAX_BATCH_SIZE + 1), dateNow, groupId)>>
       \o batchRequestEntryListOverlap(bodyList, i + MAX_BATCH_SIZE, dateNow, groupId)

\* for (let i = 0; i < bodyList.length; i += MAX_BATCH_SIZE)
\*   batchRequestEntryList.push(bodyList.slice(i, i + MAX_BATCH_SIZE).map(...))
batchRequestEntryList(bodyList, i, dateNow, groupId) ==
  IF i >= Len(bodyList) THEN <<>>
  ELSE <<EntriesOf(slice(bodyList, i, i + MAX_BATCH_SIZE), dateNow, groupId)>>
       \o batchRequestEntryList(bodyList, i + MAX_BATCH_SIZE, dateNow, groupId)

\* batchRequestEntryList.map(list => new SendMessageBatchCommand({QueueUrl, Entries}))
commandBatch(entryLists, queueUrl) ==
  [c \in 1..Len(entryLists) |-> [Entries |-> entryLists[c], QueueUrl |-> queueUrl]]

\* curr.Failed ?? [] and curr.Successful ?? []
ListOr(response, k) == IF k \in DOMAIN response THEN response[k] ELSE <<>>

\* result.reduce(..., {Failed: [], Successful: []})
RECURSIVE reduce(_)
reduce(result) ==
  IF result = <<>> THEN Value("batch", <<>>, <<>>, <<>>, "")
  ELSE LET acc == reduce(SubSeq(result, 1, Len(result) - 1))
           curr == result[Len(result)]
       IN Value("batch", acc.Failed \o ListOr(curr, "Failed"),
                acc.Successful \o ListOr(curr, "Successful"), <<>>, "")

\* What SQS may answer a batch request with: every entry accepted, the first
\* entry refused, or every entry refused; a list with no item is left out.
ResultEntry(e) == [Id |-> e.Id, MD5OfMessageBody |-> e.MessageBody]

BatchResponses(command) ==
  LET all == [j \in 1..Len(command.Entries) |-> ResultEntry(command.Entries[j])]
  IN { [Successful |-> all],
       [Failed |-> all],
       [Failed |-> SubSeq(all, 1, 1), Successful |-> Tail(all)] }

\* Receipt handles, as lists of characters.
Handles == { <<"h", "-", "1">>, <<"h", "2">> }

Alphanumeric == {"h", "1", "2"}

RECURSIVE Concat(_)
Concat(chars) == IF chars = <<>> THEN "" ELSE Head(chars) \o Concat(Tail(chars))

\* handle.replace(/[^a-zA-Z0-9]/g, "").slice(0, 60)
sanitize(handle) ==
  slice(SelectSeq(handle, LAMBDA ch : ch \in Alphanumeric), 0, DELETE_ID_HANDLE_LENGTH)

\* receiptHandleList.map((handle, index) => ({Id: `delete_${index}_...`, ReceiptHandle}))
deleteEntries(receiptHandleList) ==
  [i \in 1..Len(receiptHandleList) |->
     [Id |-> "delete_" \o ToString(i - 1) \o "_" \o Concat(sanitize(receiptHandleList[i])),
      ReceiptHandle |-> Concat(receiptHandleList[i])]]

HandleLists == UNION { [1..n -> Handles] : n \in 0..2 }

\* The messages SQS may hand out: with a JSON body, with a body that is not
\* JSON, without a receipt handle, without a body.
SqsMessages ==
  { [Body |-> "1", ReceiptHandle |-> <<"h", "-", "1">>],
    [Body |-> "x", ReceiptHandle |-> <<"h", "2">>],
    [Body |-> "2"],
    [ReceiptHandle |-> <<"h", "2">>] }

\* What SQS may answer a receive request with: no Messages, or a list of them.
ReceiveResponses ==
  {EmptyMap} \cup { [Messages |-> <<x>>] : x \in SqsMessages }
    \cup { [Messages |-> <<x, y>>] : x, y \in SqsMessages }

JsonTexts == {"1", "2"}

\* try { if (!message.Body) throw ...; body = JSON.parse(message.Body) }
\* catch { body = message.Body }: the parsed value, else the Body as it is
\* (undefined, read here as the empty string, when there is none).
parseBody(message) ==
  IF "Body" \in DOMAIN message /\ message.Body \in JsonTexts THEN JsonBody(message.Body)
  ELSE StringBody(IF "Body" \in DOMAIN message THEN message.Body ELSE "")

\* response.Messages.flatMap(...): the messages that carry a receipt handle.
RECURSIVE flatMapMessages(_)
flatMapMessages(Messages) ==
  IF Messages = <<>> THEN <<>>
  ELSE LET message == Head(Messages)
       IN (IF "ReceiptHandle" \in DOMAIN message /\ message.ReceiptHandle # <<>>
           THEN <<[body |-> parseBody(message), receiptHandle |-> message.ReceiptHandle]>>
           ELSE <<>>)
          \o flatMapMessages(Tail(Messages))

(***************************** registration ******************************)
RegisterGlobal(mod) ==
  /\ phase = "register"
  /\ Len(roots) < MaxRoots
  /\ roots' = Append(roots, mod)
  /\ rinst' = Append(rinst, InitialWrapper(mod.providers[1]))
  /\ UNCHANGED <<phase, modules, inst, cons, made, queue>>

\* The number of feature options registered so far.
Registered ==
  LET RECURSIVE sum(_)
      sum(i) == IF i = 0 THEN 0
                ELSE sum(i - 1)
                     + Cardinality({ j \in 1..Len(modules[i].providers) :
                                      modules[i].providers[j].body \in {"syncClient", "asyncClient"} })
  IN sum(Len(modules))

Register(mod, n) ==
  /\ phase = "register"
  /\ Registered + n <= MaxFeatures
  /\ modules' = Append(modules, mod)
  /\ inst' = Append(inst, InitialInst(mod))
  /\ UNCHANGED <<phase, roots, rinst, cons, made, queue>>

forRoot(R) == RegisterGlobal(forRootModule([useValue |-> R]))

forRootAsync == RegisterGlobal(forRootAsyncModule([inject |-> <<>>]))

\* A root registration in a domain that already has a root: forRoot and
\* forRootAsync look at nothing but their argument, and the bundle they return
\* is imported like the first.
RegisterGlobalAgain(mod) ==
  /\ phase = "register"
  /\ Len(roots) \in 1..MaxRoots
  /\ roots' = Append(roots, mod)
  /\ rinst' = Append(rinst, InitialWrapper(mod.providers[1]))
  /\ UNCHANGED <<phase, modules, inst, cons, made, queue>>

forRootAgain(R) == RegisterGlobalAgain(forRootModule([useValue |-> R]))

forRootAsyncAgain == RegisterGlobalAgain(forRootAsyncModule([inject |-> <<>>]))

registerFeature(optionsList) ==
  Register(registerFeatureModule(optionsList), Len(optionsList))

registerFeatureAsync(asyncOptions) ==
  Register(registerFeatureAsyncModule(asyncOptions), Len(asyncOptions))

\* The application starts: every module definition has been evaluated and the
\* container begins to resolve the providers.
Bootstrap ==
  /\ phase = "register"
  /\ phase' = "run"
  /\ UNCHANGED <<roots, rinst, modules, inst, cons, made, queue>>

(***************************** resolution ********************************)
InvokeRootFactory(r) ==
  /\ phase = "run"
  /\ roots[r].providers[1].body = "asyncRoot"
  /\ ~Settled(rinst[r])
  /\ rinst[r].calls = 0
  /\ rinst' = [rinst EXCEPT ![r].st = "resolving", ![r].calls = 1]
  /\ UNCHANGED <<phase, roots, modules, inst, cons, made, queue>>

SettleRootFactory(r, outcome) ==
  /\ phase = "run"
  /\ rinst[r].st = "resolving"
  /\ rinst[r].calls > 0
  /\ LET res == rootUseFactory(outcome)
     IN rinst' = [rinst EXCEPT ![r].st = IF res.ok THEN "resolved" ELSE "failed",
                               ![r].val = res.val,
                               ![r].err = res.err,
                               ![r].raised = outcome.err]
  /\ UNCHANGED <<phase, roots, modules, inst, cons, made, queue>>

\* The consumers waiting for token t of bundle m get what it settled with.
Notify(m, t, w) ==
  [c \in 1..MaxConsumers |->
     IF cons[c].st = "waiting" /\ cons[c].m = m /\ cons[c].t = t
     THEN [cons[c] EXCEPT !.st = "done", !.val = w.val, !.err = w.err]
     ELSE cons[c]]

InvokeFeatureFactory(m, t) ==
  /\ phase = "run"
  /\ ProviderOf(modules[m], t).body = "asyncOptions"
  /\ ~Settled(inst[m][t])
  /\ inst[m][t].calls = 0
  /\ inst' = [inst EXCEPT ![m][t].st = "resolving", ![m][t].calls = 1]
  /\ UNCHANGED <<phase, roots, rinst, modules, cons, made, queue>>

SettleFeatureFactory(m, t, outcome) ==
  /\ phase = "run"
  /\ ProviderOf(modules[m], t).body = "asyncOptions"
  /\ inst[m][t].st = "resolving"
  /\ inst[m][t].calls > 0
  /\ LET res == featureOptionsUseFactory(outcome, Identifier(ProviderOf(modules[m], t).option))
         w == [inst[m][t] EXCEPT !.st = IF res.ok THEN "resolved" ELSE "failed",
                                 !.val = res.val,
                                 !.err = res.err,
                                 !.raised = outcome.err]
     IN /\ inst' = [inst EXCEPT ![m][t] = w]
        /\ cons' = Notify(m, t, w)
  /\ UNCHANGED <<phase, roots, rinst, modules, made, queue>>

\* The arguments of a client factory: what its inject list resolves to, in order.
Args(m, p) == [i \in 1..Len(p.inject) |-> Dep(m, p.inject[i])]

Arg(m, p, i) == IF i <= Len(p.inject) THEN Args(m, p)[i].val ELSE Undefined

ClientConfig(m, p) ==
  IF p.body = "syncClient"
  THEN syncClientConfig(Args(m, p)[1], p.option)
  ELSE asyncClientConfig(Args(m, p)[1], Arg(m, p, 2))

\* The object spread over the common config by the client factory of p.
Overrides(m, p) ==
  IF p.body = "syncClient" THEN p.option ELSE Spread(Arg(m, p, 2))

Waiting(m, t) ==
  { c \in 1..MaxConsumers : cons[c].st = "waiting" /\ cons[c].m = m /\ cons[c].t = t }

\* The container calls the client provider's useFactory once everything in its
\* inject list has resolved; the instantiator called in it returns or throws x.
\* A singleton provider is called once and its wrapper keeps the outcome; a
\* transient one is called for each consumer that asks.
RunClientFactory(m, t, x) ==
  LET p == ProviderOf(modules[m], t)
      w == inst[m][t]
      client == clientInstantiator(ClientConfig(m, p), [k |-> w.calls + 1, m |-> m, t |-> t])
      res == clientUseFactory(IF x = NoErr THEN Resolve(client) ELSE Reject(x))
      done == [w EXCEPT !.st = IF res.ok THEN "resolved" ELSE "failed",
                        !.calls = w.calls + 1,
                        !.val = res.val,
                        !.err = res.err,
                        !.raised = x]
      c == CHOOSE y \in Waiting(m, t) : \A z \in Waiting(m, t) : y <= z
  IN /\ phase = "run"
     /\ p.body \in {"syncClient", "asyncClient"}
     /\ ~Settled(w)
     /\ \A i \in 1..Len(p.inject) : Args(m, p)[i].st = "resolved"
     /\ IF p.scope = "DEFAULT"
        THEN /\ inst' = [inst EXCEPT ![m][t] = done]
             /\ cons' = Notify(m, t, done)
        ELSE /\ Waiting(m, t) # {}
             /\ inst' = [inst EXCEPT ![m][t].calls = w.calls + 1]
             /\ cons' = [cons EXCEPT ![c].st = "done", ![c].val = res.val, ![c].err = res.err]
     /\ rinst' = IF RootRef = 0 THEN rinst
                 ELSE [rinst EXCEPT ![RootRef].val =
                         commonConfigAfterSpread(Args(m, p)[1], Overrides(m, p))]
     /\ UNCHANGED <<phase, roots, modules, made, queue>>

\* Variant: a client provider whose dependency failed is left as it is.
FailClientPending(m, t, i) ==
  LET p == ProviderOf(modules[m], t)
  IN /\ phase = "run"
     /\ p.body \in {"syncClient", "asyncClient"}
     /\ ~Settled(inst[m][t])
     /\ i \in 1..Len(p.inject)
     /\ Args(m, p)[i].st = "failed"
     /\ UNCHANGED vars

\* A dependency of the client provider failed: the provider fails with that
\* error, as it is, and its useFactory is not called.
FailClient(m, t, i) ==
  LET p == ProviderOf(modules[m], t)
      w == inst[m][t]
      done == [w EXCEPT !.st = "failed", !.err = Args(m, p)[i].err]
  IN /\ phase = "run"
     /\ p.body \in {"syncClient", "asyncClient"}
     /\ ~Settled(w)
     /\ i \in 1..Len(p.inject)
     /\ Args(m, p)[i].st = "failed"
     /\ inst' = [inst EXCEPT ![m][t] = done]
     /\ cons' = Notify(m, t, done)
     /\ UNCHANGED <<phase, roots, rinst, modules, made, queue>>

\* The token a consumer injects to get the client of feature n.
ConsumerTokens == { getFeatureToken(tokenRoot, <<n>>) : n \in Names }

\* A consumer of bundle m injects token t: it gets the settled value, or waits
\* for the resolution in flight, which its access starts when none is. The
\* consumers of one run all ask for the same token.
Access(c, m, t) ==
  LET w == IF t \in Tokens(modules[m]) THEN inst[m][t] ELSE MissingWrapper
  IN /\ phase = "run"
     /\ cons[c].st = "idle"
     /\ c > 1 => cons[c - 1].st # "idle" /\ cons[c - 1].t = t
     /\ IF Settled(w)
        THEN /\ cons' = [cons EXCEPT ![c] = [err |-> w.err, m |-> m, st |-> "done", t |-> t,
                                             val |-> w.val, waited |-> FALSE]]
             /\ UNCHANGED inst
        ELSE /\ cons' = [cons EXCEPT ![c] = [err |-> NoErr, m |-> m, st |-> "waiting", t |-> t,
                                             val |-> Undefined, waited |-> TRUE]]
             /\ inst' = [inst EXCEPT ![m][t].st = "resolving"]
     /\ UNCHANGED <<phase, roots, rinst, modules, made, queue>>

IdleConsumer ==
  [err |-> NoErr, m |-> 0, st |-> "idle", t |-> "", val |-> Undefined, waited |-> FALSE]

Init ==
  /\ phase = "register"
  /\ roots = <<>>
  /\ rinst = <<>>
  /\ modules = <<>>
  /\ inst = <<>>
  /\ cons = [c \in 1..MaxConsumers |-> IdleConsumer]
  /\ made = {}
  /\ queue = NoQueue

Next ==
  \/ \E R \in RootCfgs : forRoot(R)
  \/ forRootAsync
  \/ \E l \in Lists(SyncOptions) : registerFeature(l)
  \/ \E l \in Lists(AsyncOptions) : registerFeatureAsync(l)
  \/ Bootstrap
  \/ \E r \in 1..Len(roots) : InvokeRootFactory(r)
  \/ \E r \in 1..Len(roots), o \in Outcomes(RootCfgs) : SettleRootFactory(r, o)
  \/ \E m \in 1..Len(modules) : \E t \in Tokens(modules[m]) : InvokeFeatureFactory(m, t)
  \/ \E m \in 1..Len(modules) : \E t \in Tokens(modules[m]), o \in Outcomes(FeatCfgs) :
       SettleFeatureFactory(m, t, o)
  \/ \E m \in 1..Len(modules) : \E t \in Tokens(modules[m]), x \in Thrown :
       RunClientFactory(m, t, x)
  \/ \E m \in 1..Len(modules) : \E t \in Tokens(modules[m]), i \in 1..2 : FailClient(m, t, i)
  \/ \E c \in 1..MaxConsumers, m \in 1..Len(modules), t \in ConsumerTokens : Access(c, m, t)

Spec == Init /\ [][Next]_vars

\* The factory as seen by one consumer, with one value for each factory to
\* resolve with: what is left open is which calls are made, which factories
\* reject and in what order the container takes its steps.
LiveRootOutcomes == Outcomes({[creds |-> 1, region |-> 1]})

LiveFeatOutcomes == Outcomes({[region |-> 3, url |-> 1]})

LiveNext ==
  \/ \E R \in RootCfgs : forRoot(R)
  \/ forRootAsync
  \/ \E l \in Lists(SyncOptions) : registerFeature(l)
  \/ \E l \in Lists(AsyncOptions) : registerFeatureAsync(l)
  \/ Bootstrap
  \/ \E r \in 1..Len(roots) : InvokeRootFactory(r)
  \/ \E r \in 1..Len(roots), o \in LiveRootOutcomes : SettleRootFactory(r, o)
  \/ \E m \in 1..Len(modules) : \E t \in Tokens(modules[m]) : InvokeFeatureFactory(m, t)
  \/ \E m \in 1..Len(modules) : \E t \in Tokens(modules[m]), o \in LiveFeatOutcomes :
       SettleFeatureFactory(m, t, o)
  \/ \E m \in 1..Len(modules) : \E t \in Tokens(modules[m]), x \in Thrown :
       RunClientFactory(m, t, x)
  \/ \E m \in 1..Len(modules) : \E t \in Tokens(modules[m]), i \in 1..2 : FailClient(m, t, i)
  \/ \E m \in 1..Len(modules), t \in ConsumerTokens : Access(1, m, t)

\* The container resolves every provider of every module when the application
\* starts: a factory that can be called is called, a pending factory promise
\* settles, and a client factory whose inputs have settled runs or fails.
Fairness ==
  /\ WF_vars(\E r \in 1..Len(roots) : InvokeRootFactory(r))
  /\ WF_vars(\E r \in 1..Len(roots), o \in LiveRootOutcomes : SettleRootFactory(r, o))
  /\ WF_vars(\E m \in 1..Len(modules) : \E t \in Tokens(modules[m]) :
               InvokeFeatureFactory(m, t))
  /\ WF_vars(\E m \in 1..Len(modules) : \E t \in Tokens(modules[m]), o \in LiveFeatOutcomes :
               SettleFeatureFactory(m, t, o))
  /\ WF_vars(\E m \in 1..Len(modules) : \E t \in Tokens(modules[m]), x \in Thrown :
               RunClientFactory(m, t, x))
  /\ WF_vars(\E m \in 1..Len(modules) : \E t \in Tokens(modules[m]), i \in 1..2 :
               FailClient(m, t, i))

FairSpec == Init /\ [][LiveNext]_vars /\ Fairness

\* The factory with root registrations repeated in one domain.
RootsNext ==
  \/ \E R \in RootCfgs : forRoot(R)
  \/ forRootAsync
  \/ \E R \in RootCfgs : forRootAgain(R)
  \/ forRootAsyncAgain
  \/ \E l \in Lists(SyncOptions) : registerFeature(l)
  \/ \E l \in Lists(AsyncOptions) : registerFeatureAsync(l)
  \/ Bootstrap
  \/ \E r \in 1..Len(roots) : InvokeRootFactory(r)
  \/ \E r \in 1..Len(roots), o \in Outcomes(RootCfgs) : SettleRootFactory(r, o)
  \/ \E m \in 1..Len(modules) : \E t \in Tokens(modules[m]) : InvokeFeatureFactory(m, t)
  \/ \E m \in 1..Len(modules) : \E t \in Tokens(modules[m]), o \in Outcomes(FeatCfgs) :
       SettleFeatureFactory(m, t, o)
  \/ \E m \in 1..Len(modules) : \E t \in Tokens(modules[m]), x \in Thrown :
       RunClientFactory(m, t, x)
  \/ \E m \in 1..Len(modules) : \E t \in Tokens(modules[m]), i \in 1..2 : FailClient(m, t, i)

RootsSpec == Init /\ [][RootsNext]_vars

\* The factory with async feature factories that return the option objects the
\* sync registration takes (both are of type Feat).
StylesNext ==
  \/ \E R \in RootCfgs : forRoot(R)
  \/ forRootAsync
  \/ \E l \in Lists(SyncOptions) : registerFeature(l)
  \/ \E l \in Lists(AsyncOptions) : registerFeatureAsync(l)
  \/ Bootstrap
  \/ \E r \in 1..Len(roots) : InvokeRootFactory(r)
  \/ \E r \in 1..Len(roots), o \in Outcomes(RootCfgs) : SettleRootFactory(r, o)
  \/ \E m \in 1..Len(modules) : \E t \in Tokens(modules[m]) : InvokeFeatureFactory(m, t)
  \/ \E m \in 1..Len(modules) : \E t \in Tokens(modules[m]), o \in Outcomes(SyncOptions) :
       SettleFeatureFactory(m, t, o)
  \/ \E m \in 1..Len(modules) : \E t \in Tokens(modules[m]), x \in Thrown :
       RunClientFactory(m, t, x)
  \/ \E m \in 1..Len(modules) : \E t \in Tokens(modules[m]), i \in 1..2 : FailClient(m, t, i)

StylesSpec == Init /\ [][StylesNext]_vars

(***************************** token functions ***************************)
\* Token roots (domain names) and feature names the token functions are called
\* with; some of them hold the separator and the words the functions insert.
Domains == {"A", "A_Feature", "B"}

FeatureNames == {"x", "Feature_x", "Options_x"}

\* A call of one of the functions returned by getModuleTokenFunctions(D).
Generate(D, F, kind, token) ==
  /\ Cardinality(made) < MaxTokens
  /\ made' = made \cup {[domain |-> D, feature |-> F, kind |-> kind, token |-> token]}
  /\ UNCHANGED <<phase, roots, rinst, modules, inst, cons, queue>>

CallGetRootToken(D) == Generate(D, "", "root", getRootToken(D))

CallGetFeatureToken(D, F) == Generate(D, F, "feature", getFeatureToken(D, <<F>>))

CallGetFeatureOptionsToken(D, F) ==
  Generate(D, F, "options", getFeatureOptionsToken(D, <<F>>))

TokenNext ==
  \/ \E D \in Domains : CallGetRootToken(D)
  \/ \E D \in Domains, F \in FeatureNames : CallGetFeatureToken(D, F)
  \/ \E D \in Domains, F \in FeatureNames : CallGetFeatureOptionsToken(D, F)

TokenSpec == Init /\ [][TokenNext]_vars
(***************************** AwsSqsModule ******************************)
SQS_ROOT_MODULE_OPTIONS == "SqsRootModuleOptions"

SQS_QUEUE_TOKEN_PREFIX == "SqsQueueToken_"

SQS_QUEUE_OPTIONS_TOKEN_PREFIX == "SqsQueueOptionsToken_"

getSqsQueueToken(queueAlias) == mergeTokens(<<SQS_QUEUE_TOKEN_PREFIX, queueAlias>>)

getSqsQueueOptionsToken(queueAlias) ==
  mergeTokens(<<SQS_QUEUE_OPTIONS_TOKEN_PREFIX, queueAlias>>)

getSqsRootOptionsToken == SQS_ROOT_MODULE_OPTIONS

\* InjectSqsQueue(queueAlias) = Inject(getSqsQueueToken(queueAlias)): the token
\* the decorated parameter asks for.
InjectSqsQueue(queueAlias) == getSqsQueueToken(queueAlias)

\* Queue aliases the token functions are asked about: the names the queues
\* below carry, and names holding the separator and words of the prefixes.
SqsQueueAliases == Names \cup {"", "Options_a", "_a", "Token__a"}

\* Queue options (IAwsSqsFeatureModuleOptions) a caller may register.
SqsQueueOptions ==
  { [credentials |-> [accessKeyId |-> 2, secretAccessKey |-> 2], queueName |-> "a",
     region |-> 3, sqsQueueUrl |-> 1],
    [queueName |-> "b", sqsQueueUrl |-> 2] }

\* Root option objects (IAwsSqsModuleOptions) a caller may register.
SqsRootCfgs ==
  { [credentials |-> [accessKeyId |-> 1, secretAccessKey |-> 1], region |-> 1],
    [region |-> 2] }

\* The properties of IAwsSqsModuleOptions.
SqsOptionKeys == {"region", "credentials", "apiVersion", "sqsQueueUrl", "messageGroupId"}

\* AwsSqsModuleOptions.from(options): validate, then a new object that copies
\* the five properties of the type and nothing else. A property copied from an
\* absent one holds undefined, which every reader below (destructuring, a
\* later spread under an overriding property, @IsOptional) takes as absent: the
\* object is modelled by its defined properties.
AwsSqsModuleOptionsFrom(options) ==
  [k \in (DOMAIN options) \cap SqsOptionKeys |-> options[k]]

\* Async queue descriptors {queueName, useFactory, inject}.
SqsQueueAsyncOptions == { [queueName |-> n] : n \in Names }

\* What the factory of an async queue descriptor may resolve with.
SqsFeatCfgs ==
  { [credentials |-> [accessKeyId |-> 2, secretAccessKey |-> 2], region |-> 3,
     sqsQueueUrl |-> 1],
    [sqsQueueUrl |-> 2] }

sqsCommonConfigHolder == createOptionsProvider(getSqsRootOptionsToken)

sqsOptionsProviderList(optionsList) ==
  [i \in 1..Len(optionsList) |->
     Provider(getSqsQueueOptionsToken(optionsList[i].queueName),
              "asyncOptions", optionsList[i], <<>>)]

sqsQueueProviderList(optionsList) ==
  [i \in 1..Len(optionsList) |->
     Provider(getSqsQueueToken(optionsList[i].queueName),
              "asyncClient", optionsList[i],
              <<HolderToken, getSqsQueueOptionsToken(optionsList[i].queueName)>>)]

sqsCreateAsyncFeatureOptionProviders(optionsList) ==
  sqsOptionsProviderList(optionsList) \o <<sqsCommonConfigHolder>>
    \o sqsQueueProviderList(optionsList)

\* Variant: the queues of registerQueue are registered under the token of
\* their options.
queueProvidersUnderOptionsToken(optionsList) ==
  [i \in 1..Len(optionsList) |->
     Provider(getSqsQueueOptionsToken(optionsList[i].queueName),
              "syncClient", optionsList[i], <<HolderToken>>)]

queueProviders(optionsList) ==
  [i \in 1..Len(optionsList) |->
     Provider(getSqsQueueToken(optionsList[i].queueName),
              "syncClient", optionsList[i], <<HolderToken>>)]

\* AwsSqsModule.createAsyncRootOptionProvider
sqsCreateAsyncRootOptionProvider(option) ==
  Provider(getSqsRootOptionsToken, "asyncRoot", option, <<>>)

\* AwsSqsModule.forRoot: { provide: getSqsRootOptionsToken(),
\* useValue: AwsSqsModuleOptions.from(options) }, global.
sqsForRootModule(options) ==
  DynamicModule("root", TRUE,
                <<Provider(getSqsRootOptionsToken, "value",
                           AwsSqsModuleOptionsFrom(options), <<>>)>>)

sqsForRootAsyncModule(asyncOptions) ==
  DynamicModule("root", TRUE, <<sqsCreateAsyncRootOptionProvider(asyncOptions)>>)

\* async (...args) => AwsSqsModuleOptions.from(await options.useFactory(...args))
sqsRootUseFactory(outcome) ==
  IF outcome.ok THEN Resolve(Obj(AwsSqsModuleOptionsFrom(outcome.val.cfg))) ELSE outcome

sqsForRoot(options) == RegisterGlobal(sqsForRootModule(options))

sqsForRootAsync == RegisterGlobal(sqsForRootAsyncModule([inject |-> <<>>]))

sqsSettleRootFactory(r, outcome) ==
  /\ phase = "run"
  /\ rinst[r].st = "resolving"
  /\ rinst[r].calls > 0
  /\ LET res == sqsRootUseFactory(outcome)
     IN rinst' = [rinst EXCEPT ![r].st = IF res.ok THEN "resolved" ELSE "failed",
                               ![r].val = res.val,
                               ![r].err = res.err,
                               ![r].raised = outcome.err]
  /\ UNCHANGED <<phase, roots, modules, inst, cons, made, queue>>

\* The value a destructured property has when the object does not hold it.
undefined == 0

Prop(options, k) == IF k \in DOMAIN options THEN options[k] ELSE undefined

\* The SQSClientConfig the constructor of AwsSqsQueue builds from its options:
\* const { region, accessKeyId, secretAccessKey, apiVersion, ... } = options;
\* { region, credentials: { accessKeyId, secretAccessKey }, apiVersion }.
sqsConfig(options) ==
  [apiVersion |-> Prop(options, "apiVersion"),
   credentials |-> [accessKeyId |-> Prop(options, "accessKeyId"),
                    secretAccessKey |-> Prop(options, "secretAccessKey")],
   region |-> Prop(options, "region")]

registerQueueAsyncModule(asyncOptions) ==
  DynamicModule("feature", FALSE, sqsCreateAsyncFeatureOptionProviders(asyncOptions))

registerQueueModule(optionsList) ==
  DynamicModule("feature", FALSE, <<sqsCommonConfigHolder>> \o queueProviders(optionsList))

registerQueue(optionsList) ==
  Register(registerQueueModule(optionsList), Len(optionsList))

registerQueueAsync(asyncOptions) ==
  Register(registerQueueAsyncModule(asyncOptions), Len(asyncOptions))

\* The tokens the consumers of queues inject.
SqsConsumerTokens == { InjectSqsQueue(n) : n \in Names }

SqsNext ==
  \/ \E R \in SqsRootCfgs : sqsForRoot(R)
  \/ sqsForRootAsync
  \/ \E r \in 1..Len(roots) : InvokeRootFactory(r)
  \/ \E r \in 1..Len(roots), o \in Outcomes(SqsRootCfgs) : sqsSettleRootFactory(r, o)
  \/ \E l \in Lists(SqsQueueOptions) : registerQueue(l)
  \/ \E l \in Lists(SqsQueueAsyncOptions) : registerQueueAsync(l)
  \/ Bootstrap
  \/ \E m \in 1..Len(modules) : \E t \in Tokens(modules[m]) : InvokeFeatureFactory(m, t)
  \/ \E m \in 1..Len(modules) : \E t \in Tokens(modules[m]), o \in Outcomes(SqsFeatCfgs) :
       SettleFeatureFactory(m, t, o)
  \/ \E m \in 1..Len(modules) : \E t \in Tokens(modules[m]), x \in Thrown :
       RunClientFactory(m, t, x)
  \/ \E m \in 1..Len(modules) : \E t \in Tokens(modules[m]), i \in 1..2 : FailClient(m, t, i)
  \/ \E c \in 1..MaxConsumers, m \in 1..Len(modules), t \in SqsConsumerTokens : Access(c, m, t)

SqsSpec == Init /\ [][SqsNext]_vars

(***************************** AwsSqsQueue: methods *********************)
\* new AwsSqsQueue(options): the options are valid; the client is configured
\* and the defaults are kept.
Construct(options) ==
  /\ ~queue.built
  /\ queue' = [queue EXCEPT !.built = TRUE,
                            !.client = sqsConfig(options),
                            !.defaultQueueUrl = StrProp(options, "sqsQueueUrl"),
                            !.defaultMessageGroupId = StrProp(options, "messageGroupId")]
  /\ UNCHANGED <<phase, roots, rinst, modules, inst, cons, made>>

\* A method may be called on a built queue; the model has one call in flight
\* at a time.
Callable == queue.built /\ queue.outcome.kind # "pending"

\* The queue after a method was called with argument queueUrl: the commands it
\* built, those it handed to client.send so far, and the promise it returned.
Called(op, queueUrl, bodyList, commands, sent, settled, outcome) ==
  [queue EXCEPT !.op = op, !.queueUrl = queueUrl, !.bodyList = bodyList,
                !.commands = commands, !.sent = sent, !.settled = settled,
                !.result = <<>>, !.outcome = outcome]

\* The promise of a method whose one command was handed to client.send inside
\* try { return this.client.send(command) } catch { return null }: a throw of
\* the call itself is caught; the promise returned is passed on as it is.
returnSendInTry(throws) == IF throws THEN Fulfilled(null) ELSE Pending

sendMessage(body, messageGroupId, queueUrl, now, throws) ==
  LET url == queueUrlOrDefault(queue, queueUrl)
      command == [MessageBody |-> messageBody(body),
                  MessageDeduplicationId |-> ToString(now),
                  MessageGroupId |-> groupIdOrDefault(queue, messageGroupId),
                  QueueUrl |-> url.val]
  IN /\ Callable
     /\ queue' = IF ~url.ok
                 THEN Called("sendMessage", queueUrl, <<body>>, <<>>, <<>>, 0, Rejected(url.err))
                 ELSE Called("sendMessage", queueUrl, <<body>>, <<command>>, <<command>>,
                             IF throws THEN 1 ELSE 0, returnSendInTry(throws))
     /\ UNCHANGED <<phase, roots, rinst, modules, inst, cons, made>>

\* The loop of sendMessageBatch reaches its next command: result.push(await
\* this.client.send(command)) inside the try; with no command left the reduced
\* result is returned.
SendNextBatch(q, throws) ==
  IF Len(q.sent) = Len(q.commands)
  THEN [q EXCEPT !.outcome = Fulfilled(reduce(q.result))]
  ELSE IF throws
       THEN [q EXCEPT !.sent = Append(q.sent, q.commands[Len(q.sent) + 1]),
                      !.settled = q.settled + 1,
                      !.outcome = Fulfilled(null)]
       ELSE [q EXCEPT !.sent = Append(q.sent, q.commands[Len(q.sent) + 1]),
                      !.outcome = Pending]

sendMessageBatch(bodyList, messageGroupId, queueUrl, now, throws) ==
  LET url == queueUrlOrDefault(queue, queueUrl)
      dateNow == ToString(now)
      commands == commandBatch(
                    batchRequestEntryList(bodyList, 0, dateNow,
                                          groupIdOrDefault(queue, messageGroupId)),
                    url.val)
  IN /\ Callable
     /\ queue' = IF ~url.ok
                 THEN Called("sendMessageBatch", queueUrl, bodyList, <<>>, <<>>, 0, Rejected(url.err))
                 ELSE SendNextBatch(
                        Called("sendMessageBatch", queueUrl, bodyList, commands, <<>>, 0, Pending),
                        throws)
     /\ UNCHANGED <<phase, roots, rinst, modules, inst, cons, made>>

receiveMessage(queueUrl, throws) ==
  LET url == queueUrlOrDefault(queue, queueUrl)
      command == [MaxNumberOfMessages |-> 1, QueueUrl |-> url.val,
                  VisibilityTimeout |-> 5, WaitTimeSeconds |-> 5]
  IN /\ Callable
     /\ queue' = IF ~url.ok
                 THEN Called("receiveMessage", queueUrl, <<>>, <<>>, <<>>, 0, Rejected(url.err))
                 ELSE Called("receiveMessage", queueUrl, <<>>, <<command>>, <<command>>,
                             IF throws THEN 1 ELSE 0,
                             IF throws THEN Rejected(SdkError) ELSE Pending)
     /\ UNCHANGED <<phase, roots, rinst, modules, inst, cons, made>>

DeleteMessages(receiptHandleList, queueUrl, throws) ==
  LET url == queueUrlOrDefault(queue, queueUrl)
      command == [Entries |-> deleteEntries(receiptHandleList), QueueUrl |-> url.val]
  IN /\ Callable
     /\ queue' = IF ~url.ok
                 THEN Called("deleteMessages", queueUrl, <<>>, <<>>, <<>>, 0, Rejected(url.err))
                 ELSE Called("deleteMessages", queueUrl, <<>>, <<command>>, <<command>>,
                             IF throws THEN 1 ELSE 0, returnSendInTry(throws))
     /\ UNCHANGED <<phase, roots, rinst, modules, inst, cons, made>>

deleteMessages(receiptHandleList, queueUrl, throws) ==
  DeleteMessages(receiptHandleList, queueUrl, throws)

\* The handlers returned by receiveMessage call deleteMessages with the queue
\* url the receive used.
Received ==
  queue.outcome.kind = "fulfilled" /\ queue.outcome.val.kind = "messages"

onProcessComplete(receiptHandles, throws) ==
  /\ Received
  /\ DeleteMessages(receiptHandles, Str(queue.outcome.val.QueueUrl), throws)

onMessageComplete(i, throws) ==
  /\ Received
  /\ i \in 1..Len(queue.outcome.val.messages)
  /\ DeleteMessages(<<queue.outcome.val.messages[i].receiptHandle>>,
                    Str(queue.outcome.val.QueueUrl), throws)

\* The send in flight: the last command handed to client.send.
InFlight == queue.outcome.kind = "pending" /\ Len(queue.sent) = queue.settled + 1

\* What the promise of a method settles with when the promise of its send
\* rejects: sendMessageBatch awaits the send inside its try and returns null;
\* sendMessage and deleteMessages return the promise without awaiting it and
\* receiveMessage awaits it outside any try, so the rejection is theirs.
onSendRejected(op) ==
  IF op = "sendMessageBatch" THEN Fulfilled(null) ELSE Rejected(SdkError)

SendRejects ==
  /\ InFlight
  /\ queue' = [queue EXCEPT !.settled = queue.settled + 1,
                            !.outcome = onSendRejected(queue.op)]
  /\ UNCHANGED <<phase, roots, rinst, modules, inst, cons, made>>

\* The send of sendMessage or deleteMessages resolves: the method's promise is
\* fulfilled with the SDK's result (an object whose fields no method reads).
SendResolves ==
  /\ InFlight
  /\ queue.op \in {"sendMessage", "deleteMessages"}
  /\ queue' = [queue EXCEPT !.settled = queue.settled + 1,
                            !.result = <<EmptyMap>>,
                            !.outcome = Fulfilled(Value("result", <<>>, <<>>, <<>>, ""))]
  /\ UNCHANGED <<phase, roots, rinst, modules, inst, cons, made>>

\* What SQS may answer the batch request in flight with.
InFlightBatchResponses ==
  IF InFlight /\ queue.op = "sendMessageBatch"
  THEN BatchResponses(queue.sent[Len(queue.sent)])
  ELSE {}

\* A batch request resolves with response: it is pushed to result and the loop
\* goes on.
BatchSendResolves(response, throws) ==
  /\ InFlight
  /\ queue.op = "sendMessageBatch"
  /\ queue' = SendNextBatch([queue EXCEPT !.settled = queue.settled + 1,
                                          !.result = Append(queue.result, response)],
                            throws)
  /\ UNCHANGED <<phase, roots, rinst, modules, inst, cons, made>>

\* The receive request resolves: null without Messages, else the messages with
\* a receipt handle and the handlers bound to the queue url.
ReceiveResolves(response) ==
  /\ InFlight
  /\ queue.op = "receiveMessage"
  /\ queue' = [queue EXCEPT
       !.settled = queue.settled + 1,
       !.result = <<response>>,
       !.outcome =
         IF "Messages" \notin DOMAIN response THEN Fulfilled(null)
         ELSE Fulfilled(Value("messages", <<>>, <<>>, flatMapMessages(response.Messages),
                              queue.sent[1].QueueUrl))]
  /\ UNCHANGED <<phase, roots, rinst, modules, inst, cons, made>>

QueueNext ==
  \/ \E options \in QueueCfgs : Construct(options)
  \/ \E body \in {JsonBody("1"), StringBody("s")}, g \in GroupIdArgs, u \in QueueUrlArgs,
        now \in Clock, throws \in BOOLEAN : sendMessage(body, g, u, now, throws)
  \/ \E l \in BodyLists, g \in GroupIdArgs, u \in QueueUrlArgs, now \in Clock,
        throws \in BOOLEAN : sendMessageBatch(l, g, u, now, throws)
  \/ \E u \in QueueUrlArgs, throws \in BOOLEAN : receiveMessage(u, throws)
  \/ \E l \in HandleLists, u \in QueueUrlArgs, throws \in BOOLEAN : deleteMessages(l, u, throws)
  \/ \E l \in HandleLists, throws \in BOOLEAN : onProcessComplete(l, throws)
  \/ \E i \in 1..2, throws \in BOOLEAN : onMessageComplete(i, throws)
  \/ SendRejects
  \/ SendResolves
  \/ \E throws \in BOOLEAN : \E response \in InFlightBatchResponses :
       BatchSendResolves(response, throws)
  \/ \E response \in ReceiveResponses : ReceiveResolves(response)

QueueSpec == Init /\ [][QueueNext]_vars

(***************************** properties ********************************)
Bundles == 1..Len(modules)

ClientBodies == {"syncClient", "asyncClient"}

\* The client entries of bundle m.
Clients(m) == { t \in Tokens(modules[m]) : ProviderOf(modules[m], t).body \in ClientBodies }

\* The wrapper of the feature options entry that belongs to client provider p.
OptionsWrapper(m, p) ==
  inst[m][getFeatureOptionsToken(tokenRoot, <<featureIdentifierGetter(p.option)>>)]

\* The FeatureOptions of client provider p: the registered object (sync) or the
\* object its factory resolved with (async).
FeatureOptionsOf(m, p) ==
  IF p.body = "syncClient" THEN p.option ELSE OptionsWrapper(m, p).val.cfg

IsAsyncRoot(r) == roots[r].providers[1].body = "asyncRoot"

\* The RootConfig the caller registered in the domain: the R of
\* forRoot({useValue: R}), the object the forRootAsync factory resolved with, or
\* the empty mapping when no root was registered.
RegisteredRootConfig ==
  IF roots = <<>> THEN EmptyMap
  ELSE IF IsAsyncRoot(1) THEN rinst[1].val.cfg
  ELSE roots[1].providers[1].option.useValue

\* cfg holds every field of F, and every field of R that F does not have.
Overlays(cfg, R, F) ==
  /\ \A k \in DOMAIN F : k \in DOMAIN cfg /\ cfg[k] = F[k]
  /\ \A k \in (DOMAIN R) \ (DOMAIN F) : k \in DOMAIN cfg /\ cfg[k] = R[k]

\* C1: the config handed to the client instantiator maps each key of F to F's
\* value, each key only in the registered RootConfig R to R's value, and has no
\* other key.
C1_MergePrecedence ==
  \A m \in Bundles : \A t \in Clients(m) :
    inst[m][t].st = "resolved" =>
      LET cfg == inst[m][t].val.cfg
          F == FeatureOptionsOf(m, ProviderOf(modules[m], t))
      IN /\ Overlays(cfg, RegisteredRootConfig, F)
         /\ DOMAIN cfg \subseteq (DOMAIN F) \cup (DOMAIN RegisteredRootConfig)

\* C2: with no root registered in the domain, a feature's client (sync or async)
\* resolves, and the instantiator gets a config equal to the feature's options F;
\* the entry fails only when its own async options factory failed or the
\* instantiator itself threw.
C2_RootOptional ==
  roots = <<>> =>
    \A m \in Bundles : \A t \in Clients(m) :
      LET p == ProviderOf(modules[m], t)
          w == inst[m][t]
      IN /\ w.st = "resolved" => w.val.cfg = FeatureOptionsOf(m, p)
         /\ w.st = "failed" =>
              \/ w.raised # NoErr
              \/ p.body = "asyncClient" /\ OptionsWrapper(m, p).st = "failed"

C2_Witness ==
  /\ roots = <<>>
  /\ \E m \in Bundles : \E t \in Clients(m) :
       ProviderOf(modules[m], t).body = "syncClient" /\ inst[m][t].st = "resolved"
  /\ \E m \in Bundles : \E t \in Clients(m) :
       ProviderOf(modules[m], t).body = "asyncClient" /\ inst[m][t].st = "resolved"

\* C3: after registerFeature for a feature named F, the client is the entry of
\* FeatureToken(D, F) in the bundle, as for registerFeatureAsync.
C3_ClientUnderFeatureToken ==
  \A m \in Bundles : \A t \in Clients(m) :
    LET ft == getFeatureToken(tokenRoot,
                <<featureIdentifierGetter(ProviderOf(modules[m], t).option)>>)
    IN ft \in Clients(m)

\* C4: after forRoot({useValue: R}) the value under the root token is R itself,
\* and the config of every resolved feature holds every field of R that the
\* feature does not override.
C4_ForRootRegistersRootConfig ==
  \A r \in 1..Len(roots) :
    ~IsAsyncRoot(r) =>
      LET R == roots[r].providers[1].option.useValue
      IN /\ rinst[r].val.cfg = R
         /\ r = RootRef =>
              \A m \in Bundles : \A t \in Clients(m) :
                inst[m][t].st = "resolved" =>
                  Overlays(inst[m][t].val.cfg, R, FeatureOptionsOf(m, ProviderOf(modules[m], t)))

\* C5: for every client entry the instantiator is called at most once, no
\* option factory is called twice, and every consumer that resolved the entry
\* holds the one handle the entry holds.
C5_ResolvedOnce ==
  \A m \in Bundles :
    /\ \A t \in Tokens(modules[m]) : inst[m][t].calls <= 1
    /\ \A t \in Clients(m) : \A c \in 1..MaxConsumers :
         (cons[c].st = "done" /\ cons[c].m = m /\ cons[c].t = t) => cons[c].val = inst[m][t].val

C5_Witness ==
  \E c, d \in 1..MaxConsumers :
    /\ c # d
    /\ cons[c].st = "done" /\ cons[d].st = "done"
    /\ cons[c].m = cons[d].m /\ cons[c].t = cons[d].t
    /\ cons[c].waited /\ ~cons[d].waited
    /\ cons[c].val.def /\ cons[c].val.id.k = 1 /\ cons[d].val = cons[c].val

\* C6: consumers that accessed an entry while its resolution was in flight stay
\* waiting until that resolution settles, then all hold its result; the
\* instantiator is not called a second time.
C6_SingleFlight ==
  \A c \in 1..MaxConsumers :
    cons[c].waited =>
      LET w == inst[cons[c].m][cons[c].t]
      IN /\ w.calls <= 1
         /\ cons[c].st = "waiting" => ~Settled(w)
         /\ cons[c].st = "done" => Settled(w) /\ cons[c].val = w.val /\ cons[c].err = w.err

C6_Witness ==
  \E c, d \in 1..MaxConsumers :
    /\ c # d
    /\ cons[c].waited /\ cons[d].waited
    /\ cons[c].st = "done" /\ cons[d].st = "done"
    /\ cons[c].m = cons[d].m /\ cons[c].t = cons[d].t
    /\ cons[c].val.def /\ cons[c].val.id.k = 1

\* C7: the user factory of a forRootAsync registration is called at most once,
\* and every resolved feature of the domain was merged against the one value it
\* resolved with.
C7_RootFactoryOnce ==
  /\ \A r \in 1..Len(roots) : rinst[r].calls <= 1
  /\ \A m \in Bundles : \A t \in Clients(m) :
       (roots # <<>> /\ IsAsyncRoot(1) /\ inst[m][t].st = "resolved") =>
          /\ rinst[1].st = "resolved"
          /\ Overlays(inst[m][t].val.cfg, rinst[1].val.cfg,
                      FeatureOptionsOf(m, ProviderOf(modules[m], t)))

C7_Witness ==
  /\ roots # <<>> /\ IsAsyncRoot(1) /\ rinst[1].st = "resolved" /\ rinst[1].calls = 1
  /\ Len(modules) = 2
  /\ \A m \in Bundles : \E t \in Clients(m) : inst[m][t].st = "resolved"

C9_RejectedNeverInstantiated ==
  \A m \in Bundles : \A t \in Clients(m) :
    LET p == ProviderOf(modules[m], t)
    IN (p.body = "asyncClient" /\ OptionsWrapper(m, p).raised # NoErr)
         => inst[m][t].calls = 0 /\ inst[m][t].st # "resolved"

C9_Witness ==
  \E m \in Bundles : \E t \in Clients(m) :
    LET p == ProviderOf(modules[m], t)
    IN /\ p.body = "asyncClient"
       /\ OptionsWrapper(m, p).raised # NoErr
       /\ inst[m][t].st = "failed" /\ inst[m][t].calls = 0

C11_FailedTerminal ==
  [][\A m \in Bundles : \A t \in Tokens(modules[m]) :
       inst[m][t].st = "failed" =>
         /\ inst'[m][t] = inst[m][t]
         /\ \A c \in 1..MaxConsumers :
              (cons[c].st = "idle" /\ cons'[c].st # "idle" /\ cons'[c].m = m /\ cons'[c].t = t)
                => cons'[c].st = "done" /\ cons'[c].err = inst[m][t].err]_vars

C11_Witness ==
  \E m \in Bundles : \E t \in Clients(m) : \E c \in 1..MaxConsumers :
    /\ inst[m][t].st = "failed" /\ inst[m][t].err # NoErr
    /\ cons[c].st = "done" /\ cons[c].m = m /\ cons[c].t = t /\ ~cons[c].waited
    /\ cons[c].err = inst[m][t].err

\* C12: when the client instantiator throws E, the entry (registered by
\* registerFeature or registerFeatureAsync) fails with exactly E and holds no
\* handle, and E is what its consumers get.
C12_InstantiatorErrorPropagates ==
  \A m \in Bundles : \A t \in Clients(m) :
    LET w == inst[m][t]
    IN w.raised # NoErr =>
         /\ w.st = "failed" /\ w.err = w.raised /\ w.val = Undefined
         /\ \A c \in 1..MaxConsumers :
              (cons[c].st = "done" /\ cons[c].m = m /\ cons[c].t = t)
                => cons[c].err = w.raised /\ cons[c].val = Undefined

C12_Witness ==
  /\ \E m \in Bundles : \E t \in Clients(m) :
       /\ ProviderOf(modules[m], t).body = "syncClient"
       /\ inst[m][t].raised \in { UserError(e) : e \in InstErrs }
       /\ inst[m][t].st = "failed"
  /\ \E m \in Bundles : \E t \in Clients(m) : \E c \in 1..MaxConsumers :
       /\ ProviderOf(modules[m], t).body = "asyncClient"
       /\ inst[m][t].raised \in { UserError(e) : e \in InstErrs }
       /\ inst[m][t].st = "failed"
       /\ cons[c].st = "done" /\ cons[c].m = m /\ cons[c].t = t
       /\ cons[c].err = inst[m][t].raised

\* The positions of the client providers of bundle m.
ClientIdx(m) ==
  { i \in 1..Len(modules[m].providers) : modules[m].providers[i].body \in ClientBodies }

C14_DomainsDisjoint ==
  \A x, y \in made : x.domain # y.domain => x.token # y.token

\* C15: a feature's token differs from its options token in the same domain,
\* and the feature tokens of one feature name in two domains differ.
C15_TokenUniqueness ==
  \A x, y \in made :
    /\ (x.kind = "feature" /\ y.kind = "options" /\ x.domain = y.domain
          /\ x.feature = y.feature) => x.token # y.token
    /\ (x.kind = "feature" /\ y.kind = "feature" /\ x.domain # y.domain
          /\ x.feature = y.feature) => x.token # y.token

C15_Witness ==
  \E x, y, z \in made :
    /\ x.kind = "feature" /\ y.kind = "options" /\ z.kind = "feature"
    /\ x.domain = y.domain /\ x.feature = y.feature
    /\ z.domain # x.domain /\ z.feature = x.feature

\* C16: the root token is D, the feature token D + "_Feature_" + F and the
\* options token D + "_Feature_Options_" + F; calls with the same arguments
\* return the same token.
C16_TokenFormat ==
  /\ \A x \in made :
       x.token = CASE x.kind = "root" -> x.domain
                   [] x.kind = "feature" -> x.domain \o "_Feature_" \o x.feature
                   [] x.kind = "options" -> x.domain \o "_Feature_Options_" \o x.feature
  /\ \A x, y \in made :
       (x.kind = y.kind /\ x.domain = y.domain /\ x.feature = y.feature) => x.token = y.token

C16_Witness ==
  \E x, y, z \in made :
    /\ x.kind = "root" /\ y.kind = "feature" /\ z.kind = "options"
    /\ x.domain = y.domain /\ y.domain = z.domain /\ y.feature = z.feature
    /\ y.token = "A_Feature_x" /\ z.token = "A_Feature_Options_x"

\* C17: with no root value registered, the holder's get() returns an empty
\* mapping, not undefined.
C17_HolderGetEmptyMapping ==
  (phase = "run" /\ modules # <<>> /\ RootRef = 0) =>
     get(CommonOptionsHolder).def /\ get(CommonOptionsHolder).cfg = EmptyMap

\* The properties of the value registered under the root token, as a client
\* factory spreads them.
RootProperties == IF RootRef = 0 THEN EmptyMap ELSE Spread(rinst[RootRef].val)

\* C18: no step changes the value of a resolved root entry, and every field of
\* a resolved feature's config that the feature's own options do not set has the
\* root's value, whatever other features of the domain override.
C18_RootUnchanged ==
  /\ [][\A r \in 1..Len(roots) : rinst[r].st = "resolved" => rinst'[r] = rinst[r]]_vars
  /\ [](\A m \in Bundles : \A t \in Clients(m) :
          inst[m][t].st = "resolved" =>
            LET cfg == inst[m][t].val.cfg
                F == FeatureOptionsOf(m, ProviderOf(modules[m], t))
            IN \A f \in (DOMAIN cfg) \ (DOMAIN F) :
                 f \in DOMAIN RootProperties /\ cfg[f] = RootProperties[f])

C18_Witness ==
  /\ roots # <<>> /\ IsAsyncRoot(1) /\ rinst[1].st = "resolved"
  /\ "region" \in DOMAIN rinst[1].val.cfg
  /\ \E m, n \in Bundles : \E t \in Clients(m), u \in Clients(n) :
       /\ inst[m][t].st = "resolved" /\ inst[n][u].st = "resolved"
       /\ "region" \in DOMAIN FeatureOptionsOf(m, ProviderOf(modules[m], t))
       /\ inst[m][t].val.cfg["region"] # rinst[1].val.cfg["region"]
       /\ "region" \notin DOMAIN FeatureOptionsOf(n, ProviderOf(modules[n], u))
       /\ inst[n][u].val.cfg["region"] = rinst[1].val.cfg["region"]

\* C19: while the registration methods are being called no user factory has
\* been invoked: every async root and feature options entry is unresolved with
\* no call, and the bundle already holds the options token and the client token
\* made from the descriptor's name.
C19_RegistrationDoesNotInvoke ==
  phase = "register" =>
    /\ \A r \in 1..Len(roots) :
         IsAsyncRoot(r) => rinst[r].calls = 0 /\ rinst[r].st = "unresolved"
    /\ \A m \in Bundles : \A i \in 1..Len(modules[m].providers) :
         LET p == modules[m].providers[i]
         IN p.body = "asyncOptions" =>
              /\ p.provide = getFeatureOptionsToken(tokenRoot, <<p.option.name>>)
              /\ getFeatureToken(tokenRoot, <<p.option.name>>) \in Clients(m)
              /\ inst[m][p.provide].calls = 0
              /\ inst[m][p.provide].st = "unresolved"

C19_Witness ==
  /\ phase = "register"
  /\ roots # <<>> /\ IsAsyncRoot(1)
  /\ \E m \in Bundles :
       Cardinality({ t \in Clients(m) : ProviderOf(modules[m], t).body = "asyncClient" }) = 2

\* C20: all consumers that got the queue of one queue name hold the same
\* AwsSqsQueue instance, also when the name was registered in two calls.
C20_SameQueueInstance ==
  \A c, d \in 1..MaxConsumers :
    (cons[c].st = "done" /\ cons[d].st = "done" /\ cons[c].t = cons[d].t
       /\ cons[c].val.def /\ cons[d].val.def)
      => cons[c].val = cons[d].val

\* The options of the queue of client provider p: the registered object (sync)
\* or what the factory of its descriptor resolved with (async).
SqsQueueOptionsOf(m, p) ==
  IF p.body = "syncClient" THEN p.option
  ELSE inst[m][getSqsQueueOptionsToken(p.option.queueName)].val.cfg

\* The root options the queues inherit from: the value under the root options
\* token, or the empty mapping when no root was registered.
SqsRootOptions == IF RootRef = 0 THEN EmptyMap ELSE Spread(rinst[RootRef].val)

\* C21: the SQS client of a resolved queue is configured with the credentials
\* of the queue's own options when they hold credentials, otherwise with the
\* credentials registered with the root.
C21_ClientCredentials ==
  \A m \in Bundles : \A t \in Clients(m) :
    inst[m][t].st = "resolved" =>
      LET F == SqsQueueOptionsOf(m, ProviderOf(modules[m], t))
          R == SqsRootOptions
          client == sqsConfig(inst[m][t].val.cfg)
      IN /\ "credentials" \in DOMAIN F => client.credentials = F.credentials
         /\ ("credentials" \notin DOMAIN F /\ "credentials" \in DOMAIN R) =>
              client.credentials = R.credentials

\* C22: InjectSqsQueue(n) is the token under which registerQueue and
\* registerQueueAsync register the queue named n; no other provider (queue
\* options, root options) is registered under such a token, the token is never
\* the root options token or a queue-options token, and what a consumer gets for
\* it is the queue object made for that token.
C22_InjectSqsQueueToken ==
  /\ \A m \in Bundles : \A i \in 1..Len(modules[m].providers) :
       LET p == modules[m].providers[i]
       IN IF p.body \in ClientBodies
          THEN p.provide = InjectSqsQueue(p.option.queueName)
          ELSE \A n \in SqsQueueAliases : p.provide # InjectSqsQueue(n)
  /\ \A r \in 1..Len(roots) : \A n \in SqsQueueAliases :
       roots[r].providers[1].provide # InjectSqsQueue(n)
  /\ \A n \in SqsQueueAliases :
       /\ InjectSqsQueue(n) # getSqsRootOptionsToken
       /\ \A n2 \in SqsQueueAliases : InjectSqsQueue(n) # getSqsQueueOptionsToken(n2)
  /\ \A c \in 1..MaxConsumers :
       (cons[c].st = "done" /\ cons[c].val.def) =>
         /\ cons[c].val.id.t = cons[c].t
         /\ cons[c].val.id.m = cons[c].m
         /\ ProviderOf(modules[cons[c].m], cons[c].t).body \in ClientBodies

C22_Witness ==
  \E c, d \in 1..MaxConsumers :
    /\ cons[c].st = "done" /\ cons[c].val.def
    /\ cons[d].st = "done" /\ cons[d].val.def
    /\ cons[c].t = InjectSqsQueue("a") /\ cons[d].t = InjectSqsQueue("a")
    /\ ProviderOf(modules[cons[c].m], cons[c].t).body = "syncClient"
    /\ ProviderOf(modules[cons[d].m], cons[d].t).body = "asyncClient"
    /\ roots # <<>>

\* The method call on the queue has completed: its promise is settled.
Completed == queue.outcome.kind \in {"fulfilled", "rejected"}

\* The send of the last command handed to the SDK failed: it threw, or its
\* promise rejected.
SendFailed ==
  /\ queue.sent # <<>>
  /\ queue.settled = Len(queue.sent)
  /\ Len(queue.result) < Len(queue.sent)

\* C23: when the SDK send of sendMessage, sendMessageBatch or deleteMessages
\* fails, the method completes with null: its promise is fulfilled with null,
\* not rejected.
C23_SendFailureGivesNull ==
  (/\ Completed
   /\ queue.op \in {"sendMessage", "sendMessageBatch", "deleteMessages"}
   /\ SendFailed)
    => queue.outcome = Fulfilled(null)

RECURSIVE Flatten(_)
Flatten(lists) == IF lists = <<>> THEN <<>> ELSE Head(lists) \o Flatten(Tail(lists))

\* ceil(n / MAX_BATCH_SIZE)
CeilBatches(n) == (n + MAX_BATCH_SIZE - 1) \div MAX_BATCH_SIZE

\* A sendMessageBatch call that got a queue url and so built its requests.
BatchCall == queue.op = "sendMessageBatch" /\ queue.outcome.err # NoUrlError

\* C24 as stated: a completed sendMessageBatch call for n messages has issued
\* exactly ceil(n/10) batch requests.
C24_ExactlyCeilRequests ==
  (BatchCall /\ Completed) => Len(queue.sent) = CeilBatches(Len(queue.bodyList))

\* C24, amended: sendMessageBatch builds ceil(n/10) requests of at most 10
\* entries whose concatenation is the input in input order; it issues them in
\* that order, the next one only after the one before completed, and none after
\* a send that failed; a call that completes with a result has issued all of
\* them, and the result's Successful and Failed lists are the concatenations of
\* the per-request lists.
C24_BatchChunking ==
  BatchCall =>
    LET n == Len(queue.bodyList)
        entries == Flatten([c \in 1..Len(queue.commands) |-> queue.commands[c].Entries])
    IN /\ Len(queue.commands) = CeilBatches(n)
       /\ \A c \in 1..Len(queue.commands) :
            Len(queue.commands[c].Entries) \in 1..MAX_BATCH_SIZE
       /\ Len(entries) = n
       /\ \A i \in 1..n : entries[i].MessageBody = messageBody(queue.bodyList[i])
       /\ Len(queue.sent) <= Len(queue.commands)
       /\ queue.sent = SubSeq(queue.commands, 1, Len(queue.sent))
       /\ Len(queue.sent) - queue.settled \in {0, 1}
       /\ Len(queue.result) < queue.settled => Len(queue.sent) = queue.settled
       /\ (Completed /\ queue.outcome.val.kind = "batch") =>
            /\ Len(queue.sent) = CeilBatches(n)
            /\ Len(queue.result) = Len(queue.sent)
            /\ queue.outcome.val.Successful =
                 Flatten([c \in 1..Len(queue.result) |-> ListOr(queue.result[c], "Successful")])
            /\ queue.outcome.val.Failed =
                 Flatten([c \in 1..Len(queue.result) |-> ListOr(queue.result[c], "Failed")])
       /\ (Completed /\ queue.outcome.val.kind # "batch") => queue.outcome = Fulfilled(null)

C24_Witness ==
  /\ BatchCall /\ Completed
  /\ queue.outcome.val.kind = "batch"
  /\ Len(queue.bodyList) = 2 * MAX_BATCH_SIZE + 1
  /\ Len(queue.sent) = 3
  /\ Len(queue.outcome.val.Successful) = 2 * MAX_BATCH_SIZE - 1
  /\ Len(queue.outcome.val.Failed) = 2

UsedQueueUrl ==
  IF queue.queueUrl.def THEN queue.queueUrl.val ELSE queue.defaultQueueUrl.val

\* What C26 promises of the last method call, when hasDefault tells whether the
\* merged config counts as having an sqsQueueUrl.
DefaultQueueUrlRule(hasDefault) ==
  queue.op # "" =>
    /\ (~queue.queueUrl.def /\ ~hasDefault) =>
         queue.outcome = Rejected(NoUrlError) /\ queue.sent = <<>>
    /\ (queue.queueUrl.def \/ hasDefault) =>
         /\ queue.outcome.err # NoUrlError
         /\ queue.commands # <<>> \/ queue.op = "sendMessageBatch"
         /\ \A c \in 1..Len(queue.commands) : queue.commands[c].QueueUrl = UsedQueueUrl

\* C26 as stated: a call without queueUrl fails with the 'Default queue url is
\* not provided' error, sending nothing, exactly when the merged config has no
\* sqsQueueUrl property; otherwise it does not fail so and uses the argument,
\* else the default.
C26_NoUrlWhenNoProperty == DefaultQueueUrlRule(queue.defaultQueueUrl.def)

\* C26, amended: a call without queueUrl fails with the 'Default queue url is
\* not provided' error, sending nothing, exactly when the merged config has no
\* sqsQueueUrl or an empty one; with a queueUrl argument, or a non-empty
\* sqsQueueUrl, it never fails so and its requests carry the argument, else the
\* default.
C26_NoUrlWhenFalsy == DefaultQueueUrlRule(~Falsy(queue.defaultQueueUrl))

C26_Witness ==
  /\ queue.op = "receiveMessage"
  /\ ~queue.queueUrl.def
  /\ ~queue.defaultQueueUrl.def
  /\ queue.outcome = Rejected(NoUrlError)
  /\ queue.sent = <<>>

\* C27: in every batch request built by sendMessageBatch the entries have
\* pairwise distinct Id values and pairwise distinct MessageDeduplicationId
\* values.
C27_DistinctEntryIds ==
  BatchCall =>
    \A c \in 1..Len(queue.commands) :
      \A i, j \in 1..Len(queue.commands[c].Entries) :
        i # j =>
          /\ queue.commands[c].Entries[i].Id # queue.commands[c].Entries[j].Id
          /\ queue.commands[c].Entries[i].MessageDeduplicationId
               # queue.commands[c].Entries[j].MessageDeduplicationId

\* C28: within one domain the token getFeatureToken returns for a feature name
\* F1 is never the token getFeatureOptionsToken returns for a feature name F2,
\* whether F1 and F2 are equal or not.
C28_ClientTokenNeverOptionsToken ==
  \A a, b \in made :
    (a.domain = b.domain /\ a.kind = "feature" /\ b.kind = "options") => a.token # b.token

\* C29: under one root registration, a feature registered with registerFeature
\* and a feature registered with registerFeatureAsync whose factory returned the
\* same options value have their client instantiator called with equal configs.
C29_SyncAsyncSameConfig ==
  \A m1, m2 \in Bundles : \A t1 \in Clients(m1), t2 \in Clients(m2) :
    LET p1 == ProviderOf(modules[m1], t1)
        p2 == ProviderOf(modules[m2], t2)
    IN (/\ p1.body = "syncClient" /\ inst[m1][t1].st = "resolved"
        /\ p2.body = "asyncClient" /\ inst[m2][t2].st = "resolved"
        /\ FeatureOptionsOf(m2, p2) = p1.option)
         => inst[m1][t1].val.cfg = inst[m2][t2].val.cfg

C29_Witness ==
  /\ roots # <<>>
  /\ \E m1, m2 \in Bundles : \E t1 \in Clients(m1), t2 \in Clients(m2) :
       LET p1 == ProviderOf(modules[m1], t1)
           p2 == ProviderOf(modules[m2], t2)
       IN /\ p1.body = "syncClient" /\ inst[m1][t1].st = "resolved"
          /\ p2.body = "asyncClient" /\ inst[m2][t2].st = "resolved"
          /\ FeatureOptionsOf(m2, p2) = p1.option
          /\ "region" \in DOMAIN p1.option
          /\ "region" \in DOMAIN Spread(rinst[1].val)

\* The tokens a client entry may be registered under.
ClientTokens ==
  { getFeatureToken(tokenRoot, <<n>>) : n \in Names }
    \cup { getFeatureOptionsToken(tokenRoot, <<n>>) : n \in Names }

\* Token t of bundle m is a client entry whose resolution is in flight.
Resolving(m, t) ==
  m \in Bundles /\ t \in Clients(m) /\ inst[m][t].st = "resolving"

\* Token t of bundle m is a client entry that resolved or failed.
SettledEntry(m, t) ==
  m \in Bundles /\ t \in Clients(m) /\ Settled(inst[m][t])

\* Token t of bundle m is a client entry with sync sources only: registered
\* with registerFeature in a domain without an async root.
SyncOnly(m, t) ==
  /\ m \in Bundles /\ t \in Clients(m)
  /\ ProviderOf(modules[m], t).body = "syncClient"
  /\ \A r \in 1..Len(roots) : ~IsAsyncRoot(r)

\* C30: with the container resolving what it can and every factory promise
\* settling, a client entry that is resolving eventually is resolved or failed;
\* an entry with sync sources only is settled once the application runs, and is
\* resolved unless the instantiator threw. Entries in flight sit under feature
\* tokens and sync-only entries under options tokens, never the other way round.
C30_EventuallySettled ==
  /\ \A m \in 1..MaxFeatures : \A t \in ConsumerTokens :
       Resolving(m, t) ~> SettledEntry(m, t)
  /\ \A m \in 1..MaxFeatures : \A t \in ClientTokens \ ConsumerTokens :
       (phase = "run" /\ SyncOnly(m, t)) ~> SettledEntry(m, t)
  /\ [](\A m \in 1..MaxFeatures : \A t \in ConsumerTokens : ~SyncOnly(m, t))
  /\ [](\A m \in 1..MaxFeatures : \A t \in ClientTokens \ ConsumerTokens : ~Resolving(m, t))
  /\ [](\A m \in 1..MaxFeatures : \A t \in ClientTokens :
          (SyncOnly(m, t) /\ Settled(inst[m][t]) /\ inst[m][t].raised = NoErr)
            => inst[m][t].st = "resolved")

C30_Witness ==
  \E m \in Bundles : \E t \in Clients(m) :
    /\ ProviderOf(modules[m], t).body = "asyncClient"
    /\ inst[m][t].st = "resolved"
    /\ cons[1].m = m /\ cons[1].t = t /\ cons[1].waited
    /\ roots # <<>> /\ IsAsyncRoot(1)
====
